---- MODULE Spec2Model ----
(***************************************************************************)
(* Model of trivy-plugin-push-referrer (src/main.go): the pipeline of      *)
(* putReferrer, which reads an SBOM, resolves the image it describes,      *)
(* builds an OCI referrer manifest and pushes it to the image's            *)
(* repository.                                                             *)
(*                                                                         *)
(* Strings are sequences of tokens.  A token is either one of the          *)
(* delimiter characters the parsers split on (":", "/", "@", "?", "&",     *)
(* "=") or a maximal run of other characters, so that formatting           *)
(* (fmt.Sprintf) is concatenation and parsing is splitting, as in the      *)
(* code.  Percent-escapes and the subpath part ("#...") of a package-URL   *)
(* are outside the alphabet.                                               *)
(***************************************************************************)
EXTENDS Integers, Sequences, FiniteSets, TLC

\* Bounds of the model.
MaxQuals == 2       \* qualifiers in a package-URL
MaxPackages == 2    \* packages in an SPDX document

(***************************************************************************)
(* Program constants, main.go:24-32 and the literals of referrerFromSBOM.  *)
(***************************************************************************)
annotationKeyDescription == "org.opencontainers.artifact.description"
mediaKeyCycloneDX == "application/vnd.cyclonedx+json"
mediaKeySPDX == "application/spdx+json"
OCIUncompressedLayer == "application/vnd.oci.image.layer.v1.tar"
FormatCycloneDXJSON == "cyclonedx-json"
FormatSPDXJSON == "spdx-json"
DefaultRegistry == <<"index.docker.io">>
defaultRegistryAlias == <<"docker.io">>

(***************************************************************************)
(* strings.* on token sequences.                                           *)
(***************************************************************************)
Index(s, t) ==
    IF \E i \in 1..Len(s) : s[i] = t
    THEN CHOOSE i \in 1..Len(s) : s[i] = t /\ \A j \in 1..(i - 1) : s[j] # t
    ELSE 0

LastIndex(s, t) ==
    IF \E i \in 1..Len(s) : s[i] = t
    THEN CHOOSE i \in 1..Len(s) : s[i] = t /\ \A j \in (i + 1)..Len(s) : s[j] # t
    ELSE 0

Contains(s, t) == \E i \in 1..Len(s) : s[i] = t

Before(s, i) == SubSeq(s, 1, i - 1)

After(s, i) == SubSeq(s, i + 1, Len(s))

RECURSIVE Split(_, _)
Split(s, t) ==
    LET i == Index(s, t)
    IN  IF i = 0 THEN <<s>> ELSE <<Before(s, i)>> \o Split(After(s, i), t)

SplitN2(s, t) ==
    LET i == Index(s, t)
    IN  IF i = 0 THEN <<s>> ELSE <<Before(s, i), After(s, i)>>

RECURSIVE Join(_, _)
Join(parts, t) ==
    IF Len(parts) = 0 THEN <<>>
    ELSE IF Len(parts) = 1 THEN parts[1]
    ELSE parts[1] \o <<t>> \o Join(Tail(parts), t)

RECURSIVE TrimLeft(_, _)
TrimLeft(s, t) ==
    IF Len(s) > 0 /\ s[1] = t THEN TrimLeft(Tail(s), t) ELSE s

(***************************************************************************)
(* Lexical facts about tokens, which the parsers test character by         *)
(* character.                                                              *)
(***************************************************************************)
Delims == {":", "/", "@", "?", "&", "="}

\* Tokens holding a '.' (name.NewRepository tests the first path element).
DottedTokens == {"registry.example.com", "index.docker.io", "docker.io", "1.0"}

\* Tokens holding a character outside [a-z0-9._-] (upper case).
UpperTokens == {"BAD"}

\* Tokens made of decimal digits only.
DigitTokens == {"5000"}

\* Word tokens that are not 64 lower-case hexadecimal digits.  Every other
\* non-delimiter token stands for the hexadecimal part of a SHA-256 digest.
Words ==
    {"pkg", "oci", "myimage", "other", "org", "library", "latest", "sha256",
     "repository_url", "version", "arch", "amd64", "localhost", ""}
        \cup DottedTokens \cup UpperTokens \cup DigitTokens

IsHex(t) == t \notin Delims \cup Words

(***************************************************************************)
(* purl.FromString (trivy), a wrapper of packageurl.FromString, called at  *)
(* main.go:75.  The result holds the fields repoFromPurl reads.            *)
(***************************************************************************)
PurlError(e) ==
    [ok |-> FALSE, err |-> e, type |-> <<>>, name |-> <<>>, version |-> <<>>,
     qualifiers |-> <<>>]

validQualifierKey(key) == Len(key) = 1 /\ key[1] \notin Delims /\ key[1] # ""

\* One "key=value" item of the query part; an item whose value is empty is
\* dropped.
ParseQualifier(item) ==
    LET kv == Split(item, "=")
    IN  [key |-> kv[1],
         value |-> IF Len(kv) >= 2 THEN kv[2] ELSE <<>>,
         valid |-> validQualifierKey(kv[1])]

RECURSIVE ParseQualifiers(_)
ParseQualifiers(items) ==
    IF Len(items) = 0 THEN <<>>
    ELSE LET q == ParseQualifier(items[1])
         IN  (IF q.value = <<>> THEN <<>> ELSE <<[key |-> q.key, value |-> q.value]>>)
                 \o ParseQualifiers(Tail(items))

\* FromString with the version left in the name: the "@" is not split on.
FromStringVersionInName(purl) ==
    LET qi == LastIndex(purl, "?")
        items == IF qi = 0 THEN <<>> ELSE Split(After(purl, qi), "&")
        rem1 == IF qi = 0 THEN purl ELSE Before(purl, qi)
        scheme == SplitN2(rem1, ":")
        typ == SplitN2(TrimLeft(scheme[2], "/"), "/")
        name == After(typ[2], LastIndex(typ[2], "/"))
    IN  IF Len(scheme) # 2 \/ scheme[1] # <<"pkg">>
        THEN PurlError("scheme is missing")
        ELSE IF Len(typ) # 2
        THEN PurlError("type is missing")
        ELSE [ok |-> TRUE, err |-> "", type |-> typ[1], name |-> name,
              version |-> <<>>, qualifiers |-> ParseQualifiers(items)]

FromString(purl) ==
    LET qi == LastIndex(purl, "?")
        items == IF qi = 0 THEN <<>> ELSE Split(After(purl, qi), "&")
        rem1 == IF qi = 0 THEN purl ELSE Before(purl, qi)
        scheme == SplitN2(rem1, ":")
        rem2 == TrimLeft(scheme[2], "/")
        typ == SplitN2(rem2, "/")
        rem3 == typ[2]
        si == LastIndex(rem3, "/")
        last == After(rem3, si)
        ai == Index(last, "@")
        name == IF ai = 0 THEN last ELSE Before(last, ai)
        version == IF ai = 0 THEN <<>> ELSE After(last, ai)
    IN  IF \E i \in 1..Len(items) : ~ParseQualifier(items[i]).valid
        THEN PurlError("invalid qualifier key")
        ELSE IF Len(scheme) # 2 \/ scheme[1] # <<"pkg">>
        THEN PurlError("scheme is missing")
        ELSE IF Len(typ) # 2
        THEN PurlError("type is missing")
        ELSE IF name = <<>>
        THEN PurlError("name is required")
        ELSE [ok |-> TRUE, err |-> "", type |-> typ[1], name |-> name,
              version |-> version, qualifiers |-> ParseQualifiers(items)]

\* Qualifiers.Map()[key]: the map is filled in order, so the last qualifier
\* of a key stays; a missing key reads as the empty string.
QualifiersMap(qualifiers, key) ==
    LET hits == {i \in 1..Len(qualifiers) : qualifiers[i].key = <<key>>}
    IN  IF hits = {} THEN <<>>
        ELSE qualifiers[CHOOSE i \in hits : \A j \in hits : j <= i].value

(***************************************************************************)
(* go-containerregistry pkg/name: NewRepository, NewTag, NewDigest and the *)
(* accessors RegistryStr, RepositoryStr, called at main.go:65-66 and 85.   *)
(***************************************************************************)
NoDigest == [registry |-> <<>>, repository |-> <<>>, digest |-> <<>>]

NameError(e) == [ok |-> FALSE, err |-> e, val |-> NoDigest]

HasDot(s) == \E i \in 1..Len(s) : s[i] \in DottedTokens

checkRepository(repo) ==
    /\ Len(repo) > 0
    /\ \A i \in 1..Len(repo) : repo[i] \notin (Delims \ {"/"}) \cup UpperTokens \cup {""}

\* url.Parse("//" + reg) succeeds with Host = reg: a host, then optionally
\* ":" and a port that is empty or all digits.
checkRegistry(reg) ==
    LET i == Index(reg, ":")
        host == IF i = 0 THEN reg ELSE Before(reg, i)
        port == IF i = 0 THEN <<>> ELSE After(reg, i)
    IN  /\ Len(host) <= 1
        /\ \A j \in 1..Len(host) : host[j] \notin Delims
        /\ port = <<>> \/ (Len(port) = 1 /\ port[1] \in DigitTokens)

checkTag(tag) ==
    /\ Len(tag) > 0
    /\ \A i \in 1..Len(tag) : tag[i] \notin Delims \cup {""}

NewRegistry(reg) ==
    IF reg = <<>> \/ reg = defaultRegistryAlias THEN DefaultRegistry ELSE reg

NewRepository(s) ==
    LET parts == SplitN2(s, "/")
        isReg == /\ Len(parts) = 2
                 /\ \/ HasDot(parts[1])
                    \/ Contains(parts[1], ":")
        registry == IF isReg THEN parts[1] ELSE <<>>
        repo == IF isReg THEN parts[2] ELSE s
    IN  IF Len(s) = 0
        THEN NameError("a repository name must be specified")
        ELSE IF ~checkRepository(repo)
        THEN NameError("repository can only contain the characters [a-z0-9._-/]")
        ELSE IF ~checkRegistry(registry)
        THEN NameError("registries must be valid RFC 3986 URI authorities")
        ELSE [ok |-> TRUE, err |-> "",
              val |-> [registry |-> NewRegistry(registry), repository |-> repo,
                       digest |-> <<>>]]

RegistryStr(d) == IF d.registry = <<>> THEN DefaultRegistry ELSE d.registry

hasImplicitNamespace(d) ==
    ~Contains(d.repository, "/") /\ RegistryStr(d) = DefaultRegistry

RepositoryStr(d) ==
    IF hasImplicitNamespace(d) THEN <<"library", "/">> \o d.repository
    ELSE d.repository

\* Repository.Name()
RepositoryName(d) == RegistryStr(d) \o <<"/">> \o RepositoryStr(d)

NewTag(s) ==
    LET parts == Split(s, ":")
        n == Len(parts)
        hasTag == n > 1 /\ ~Contains(parts[n], "/")
        base == IF hasTag THEN Join(SubSeq(parts, 1, n - 1), ":") ELSE s
        tag == IF hasTag THEN parts[n] ELSE <<>>
    IN  IF tag # <<>> /\ ~checkTag(tag)
        THEN NameError("tag can only contain the characters [a-zA-Z0-9_.-]")
        ELSE NewRepository(base)

IsDigestStr(dig) ==
    Len(dig) = 3 /\ dig[1] = "sha256" /\ dig[2] = ":" /\ IsHex(dig[3])

NewDigest(s) ==
    LET parts == Split(s, "@")
        base == parts[1]
        dig == parts[2]
        tag == NewTag(base)
        repo == NewRepository(IF tag.ok THEN RepositoryName(tag.val) ELSE base)
    IN  IF Len(parts) # 2
        THEN NameError("a digest must contain exactly one '@' separator")
        ELSE IF ~IsDigestStr(dig)
        THEN NameError("unsupported digest algorithm or invalid checksum digest")
        ELSE IF ~repo.ok THEN repo
        ELSE [ok |-> TRUE, err |-> "",
              val |-> [repo.val EXCEPT !.digest = dig]]

(***************************************************************************)
(* repoFromPurl, main.go:74-91.                                            *)
(***************************************************************************)
\* repoFromPurl taking the digest from a qualifier named version.
repoFromPurlVersionQualifier(purlStr) ==
    LET p == FromString(purlStr)
        url == QualifiersMap(p.qualifiers, "repository_url")
    IN  IF ~p.ok THEN NameError(p.err)
        ELSE IF url = <<>> THEN NameError("repository_url not found")
        ELSE NewDigest(url \o <<"@">> \o QualifiersMap(p.qualifiers, "version"))

repoFromPurl(purlStr) ==
    LET p == FromString(purlStr)
        url == QualifiersMap(p.qualifiers, "repository_url")
    IN  IF ~p.ok THEN NameError(p.err)
        ELSE IF url = <<>> THEN NameError("repository_url not found")
        ELSE NewDigest(url \o <<"@">> \o p.version)

(***************************************************************************)
(* repoFromSpdx, main.go:93-105.  In the release of tools-golang whose     *)
(* Document2_2 keeps DocumentName inside CreationInfo, Packages is a       *)
(* map[ElementID]*Package2_2, so the outer loop visits the packages in an  *)
(* order the Go runtime picks: `order` is that order, a permutation of the *)
(* package indices.  PackageExternalReferences is a slice.                 *)
(***************************************************************************)
CategoryPackageManager == "PACKAGE-MANAGER"

FirstPackageManagerRef(refs) ==
    IF \E i \in 1..Len(refs) : refs[i].Category = CategoryPackageManager
    THEN CHOOSE i \in 1..Len(refs) :
            /\ refs[i].Category = CategoryPackageManager
            /\ \A j \in 1..(i - 1) : refs[j].Category # CategoryPackageManager
    ELSE 0

RECURSIVE ScanPackages(_, _, _)
ScanPackages(spdx, order, k) ==
    IF k > Len(order) THEN NameError("not found: repo uri")
    ELSE LET pkg == spdx.Packages[order[k]]
             i == FirstPackageManagerRef(pkg.PackageExternalReferences)
         IN  IF pkg.PackageName = spdx.CreationInfo.DocumentName /\ i # 0
             THEN repoFromPurl(pkg.PackageExternalReferences[i].Locator)
             ELSE ScanPackages(spdx, order, k + 1)

\* repoFromSpdx without the comparison of the package name.
repoFromSpdxAnyPackage(spdx, order) ==
    LET hits == {k \in 1..Len(order) :
                    FirstPackageManagerRef(
                        spdx.Packages[order[k]].PackageExternalReferences) # 0}
        k == CHOOSE k \in hits : \A j \in hits : k <= j
        refs == spdx.Packages[order[k]].PackageExternalReferences
    IN  IF hits = {} THEN NameError("not found: repo uri")
        ELSE repoFromPurl(refs[FirstPackageManagerRef(refs)].Locator)

repoFromSpdx(spdx, order) == ScanPackages(spdx, order, 1)

\* The orders in which a range over a map of n entries can visit them.
IterationOrders(n) ==
    {o \in [1..n -> 1..n] : \A i, j \in 1..n : o[i] = o[j] => i = j}

(***************************************************************************)
(* referrer.Image, main.go:42-57: empty.Image plus one static layer, then  *)
(* the four mutate calls.  A manifest is the record of the fields the      *)
(* registry serializes.                                                    *)
(***************************************************************************)
NoDescriptor == [mediaType |-> "", digest |-> <<>>, size |-> 0]

NoReferrer ==
    [annotations |-> {}, mediaType |-> "", bytes |-> <<>>,
     targetRepo |-> NoDigest, targetDesc |-> NoDescriptor]

NoImage ==
    [mediaType |-> "", layers |-> <<>>, config |-> [mediaType |-> ""],
     annotations |-> {}, subject |-> NoDescriptor]

\* Image with the two media types exchanged.
ImageSwappedMediaTypes(r) ==
    [mediaType |-> r.mediaType,
     layers |-> <<[mediaType |-> OCIUncompressedLayer, data |-> r.bytes]>>,
     config |-> [mediaType |-> r.targetDesc.mediaType],
     annotations |-> r.annotations,
     subject |-> r.targetDesc]

Image(r) ==
    [mediaType |-> r.targetDesc.mediaType,
     layers |-> <<[mediaType |-> OCIUncompressedLayer, data |-> r.bytes]>>,
     config |-> [mediaType |-> r.mediaType],
     annotations |-> r.annotations,
     subject |-> r.targetDesc]

(***************************************************************************)
(* referrer.Tag, main.go:59-72.  img.Digest() is SHA-256 of the serialized *)
(* manifest: an injective function of the manifest, written "sha256:<hex>".*)
(***************************************************************************)
ImageDigest(i) == <<"sha256", ":", ToString(i)>>

\* Tag naming the digest of the subject instead of the manifest's own.
TagOfSubject(r, i) ==
    NewDigest(RegistryStr(r.targetRepo) \o <<"/">> \o RepositoryStr(r.targetRepo)
                  \o <<"@">> \o r.targetDesc.digest)

Tag(r, i) ==
    NewDigest(RegistryStr(r.targetRepo) \o <<"/">> \o RepositoryStr(r.targetRepo)
                  \o <<"@">> \o ImageDigest(i))

(***************************************************************************)
(* The inputs: SBOM documents.  The bytes read from the file are modelled  *)
(* by the content the external decoder (sbom.DetectFormat, sbom.Decode)    *)
(* finds in them.                                                          *)
(***************************************************************************)
Sha(hex) == <<"sha256", ":", hex>>

\* Image references as they occur in a repository_url qualifier: host (or
\* none), repository path, and an optional tag.
RepoUrlParts ==
    {[host |-> <<"registry.example.com">>, path |-> <<"org", "/", "myimage">>, tag |-> <<>>],
     [host |-> <<"registry.example.com">>, path |-> <<"org", "/", "myimage">>, tag |-> <<"latest">>],
     [host |-> <<>>, path |-> <<"myimage">>, tag |-> <<>>],
     [host |-> <<>>, path |-> <<"localhost", "/", "myimage">>, tag |-> <<>>],
     [host |-> <<"registry.example.com", ":", "5000">>, path |-> <<"myimage">>,
      tag |-> <<>>],
     [host |-> <<"registry.example.com", ":", "latest">>, path |-> <<"myimage">>,
      tag |-> <<>>],
     [host |-> <<"docker.io">>, path |-> <<"BAD">>, tag |-> <<>>]}

RenderRepoUrl(u) ==
    (IF u.host = <<>> THEN <<>> ELSE u.host \o <<"/">>) \o u.path
        \o (IF u.tag = <<>> THEN <<>> ELSE <<":">> \o u.tag)

\* Qualifiers of a package-URL, as key and value.
QualifierItems ==
    {[key |-> "repository_url", value |-> RenderRepoUrl(u)] : u \in RepoUrlParts}
        \cup {[key |-> "repository_url", value |-> <<>>],
              [key |-> "version", value |-> Sha("aaaa")],
              [key |-> "arch", value |-> <<"amd64">>]}

QualifierLists ==
    UNION {{q \in [1..n -> QualifierItems] :
                \A i, j \in 1..n : q[i].key = q[j].key => i = j} : n \in 0..MaxQuals}

RECURSIVE RenderQualifiers(_)
RenderQualifiers(q) ==
    IF Len(q) = 0 THEN <<>>
    ELSE <<q[1].key, "=">> \o q[1].value
            \o (IF Len(q) = 1 THEN <<>> ELSE <<"&">> \o RenderQualifiers(Tail(q)))

\* scheme:type/name@version?qualifiers
PurlParts ==
    [scheme : {<<"pkg", ":">>, <<>>},
     version : {<<>>, Sha("aaaa"), <<"1.0">>},
     qualifiers : QualifierLists]

RenderPurl(c) ==
    c.scheme \o <<"oci", "/", "myimage">>
        \o (IF c.version = <<>> THEN <<>> ELSE <<"@">> \o c.version)
        \o (IF Len(c.qualifiers) = 0 THEN <<>> ELSE <<"?">> \o RenderQualifiers(c.qualifiers))

LocatorA ==
    RenderPurl([scheme |-> <<"pkg", ":">>, version |-> Sha("aaaa"),
                qualifiers |-> <<[key |-> "repository_url",
                                  value |-> <<"registry.example.com", "/", "org", "/", "myimage">>]>>])

LocatorB ==
    RenderPurl([scheme |-> <<"pkg", ":">>, version |-> Sha("bbbb"),
                qualifiers |-> <<[key |-> "repository_url", value |-> <<"myimage">>]>>])

LocatorNoUrl ==
    RenderPurl([scheme |-> <<"pkg", ":">>, version |-> Sha("aaaa"),
                qualifiers |-> <<[key |-> "arch", value |-> <<"amd64">>]>>])

ExtRef(c, l) == [Category |-> c, Locator |-> l]

ExternalReferenceLists ==
    {<<>>,
     <<ExtRef("SECURITY", LocatorA)>>,
     <<ExtRef(CategoryPackageManager, LocatorA)>>,
     <<ExtRef(CategoryPackageManager, LocatorB)>>,
     <<ExtRef(CategoryPackageManager, LocatorNoUrl)>>,
     <<ExtRef("SECURITY", LocatorB), ExtRef(CategoryPackageManager, LocatorA)>>,
     <<ExtRef(CategoryPackageManager, LocatorA), ExtRef(CategoryPackageManager, LocatorB)>>,
     <<ExtRef(CategoryPackageManager, LocatorNoUrl), ExtRef(CategoryPackageManager, LocatorA)>>}

SpdxPackages ==
    [PackageName : {"myimage", "other"},
     PackageExternalReferences : ExternalReferenceLists]

SpdxPackageLists == UNION {[1..n -> SpdxPackages] : n \in 0..MaxPackages}

\* Formats sbom.DetectFormat knows besides the two of the switch.
OtherFormats == {"spdx-tv", "attest-cyclonedx-json"}

Inputs ==
    {[format |-> FormatCycloneDXJSON, BOMRef |-> RenderPurl(c),
      DocumentName |-> "", Packages |-> <<>>] : c \in PurlParts}
    \cup {[format |-> FormatSPDXJSON, BOMRef |-> <<>>,
           DocumentName |-> "myimage", Packages |-> ps] : ps \in SpdxPackageLists}
    \cup {[format |-> f, BOMRef |-> <<>>, DocumentName |-> "", Packages |-> <<>>] :
              f \in OtherFormats}

NoInput == [format |-> "", BOMRef |-> <<>>, DocumentName |-> "", Packages |-> <<>>]

\* What sbom.Decode hands back for the bytes b.
NoDecoded ==
    [CycloneDX |-> [BOMRef |-> <<>>],
     SPDX |-> [CreationInfo |-> [DocumentName |-> ""], Packages |-> <<>>]]

Decoded(b) ==
    [CycloneDX |-> [BOMRef |-> b.BOMRef],
     SPDX |-> [CreationInfo |-> [DocumentName |-> b.DocumentName],
               Packages |-> b.Packages]]

\* Descriptors remote.Head can answer with for the reference d.
HeadDescriptors(d) ==
    [mediaType : {"application/vnd.oci.image.manifest.v1+json",
                  "application/vnd.docker.distribution.manifest.v2+json"},
     digest : {d.digest},
     size : {123}]

(***************************************************************************)
(* putReferrer, main.go:165-189, with referrerFromSBOM (main.go:107-163)   *)
(* inlined.  pc is the next stage of the run; the locals of the two        *)
(* functions are the variables.  Three history variables record what the   *)
(* run did: calls, the stages executed with the error each returned ("" is *)
(* nil); heads, the argument and answer of each remote.Head; writes, the   *)
(* arguments and outcome of each remote.Write.                             *)
(***************************************************************************)
VARIABLES pc, input, b, format, decoded, repo, anns, mediaType, ref, img, tag,
          err, calls, heads, writes

vars == <<pc, input, b, format, decoded, repo, anns, mediaType, ref, img, tag,
          err, calls, heads, writes>>

Init ==
    /\ pc = "ReadAll"
    /\ input \in Inputs
    /\ b = NoInput
    /\ format = ""
    /\ decoded = NoDecoded
    /\ repo = NoDigest
    /\ anns = {}
    /\ mediaType = ""
    /\ ref = NoReferrer
    /\ img = NoImage
    /\ tag = NoDigest
    /\ err = ""
    /\ calls = <<>>
    /\ heads = <<>>
    /\ writes = <<>>

\* The stage op returned e: on an error the run returns it to the caller,
\* otherwise it goes on to the stage next.
Returned(op, e, next) ==
    /\ calls' = Append(calls, [op |-> op, err |-> e])
    /\ IF e = "" THEN pc' = next /\ err' = err
       ELSE pc' = "done" /\ err' = e

\* main.go:108-111
ReadAll ==
    /\ pc = "ReadAll"
    /\ \/ b' = input /\ Returned("ReadAll", "", "DetectFormat")
       \/ b' = b /\ Returned("ReadAll", "read error", "DetectFormat")
    /\ UNCHANGED <<input, format, decoded, repo, anns, mediaType, ref, img, tag,
                   heads, writes>>

\* main.go:113-116
DetectFormat ==
    /\ pc = "DetectFormat"
    /\ \/ format' = b.format /\ Returned("DetectFormat", "", "Decode")
       \/ format' = format /\ Returned("DetectFormat", "detect error", "Decode")
    /\ UNCHANGED <<input, b, decoded, repo, anns, mediaType, ref, img, tag,
                   heads, writes>>

\* main.go:117-120
Decode ==
    /\ pc = "Decode"
    /\ \/ decoded' = Decoded(b) /\ Returned("Decode", "", "Resolve")
       \/ decoded' = decoded /\ Returned("Decode", "decode error", "Resolve")
    /\ UNCHANGED <<input, b, format, repo, anns, mediaType, ref, img, tag,
                   heads, writes>>

\* One case of the switch, main.go:128-135 and 138-145: r is what the
\* resolver op returned.
Resolved(op, r, description, media) ==
    /\ Returned(op, r.err, "Head")
    /\ IF r.ok
       THEN /\ repo' = r.val
            /\ anns' = {<<annotationKeyDescription, description>>}
            /\ mediaType' = media
       ELSE UNCHANGED <<repo, anns, mediaType>>

\* main.go:127-135
ResolveCycloneDX ==
    /\ pc = "Resolve"
    /\ format = FormatCycloneDXJSON
    /\ Resolved("repoFromPurl", repoFromPurl(decoded.CycloneDX.BOMRef),
                "CycloneDX JSON SBOM", mediaKeyCycloneDX)
    /\ UNCHANGED <<input, b, format, decoded, ref, img, tag, heads, writes>>

\* main.go:137-145
ResolveSPDX ==
    /\ pc = "Resolve"
    /\ format = FormatSPDXJSON
    /\ \E order \in IterationOrders(Len(decoded.SPDX.Packages)) :
          Resolved("repoFromSpdx", repoFromSpdx(decoded.SPDX, order),
                   "SPDX JSON SBOM", mediaKeySPDX)
    /\ UNCHANGED <<input, b, format, decoded, ref, img, tag, heads, writes>>

\* The switch without its default case: the run goes on with empty locals.
ResolveDefaultFallsThrough ==
    /\ pc = "Resolve"
    /\ format \notin {FormatCycloneDXJSON, FormatSPDXJSON}
    /\ pc' = "Head"
    /\ UNCHANGED <<input, b, format, decoded, repo, anns, mediaType, ref, img,
                   tag, err, calls, heads, writes>>

\* main.go:147-148
ResolveDefault ==
    /\ pc = "Resolve"
    /\ format \notin {FormatCycloneDXJSON, FormatSPDXJSON}
    /\ pc' = "done"
    /\ err' = "unsupported format"
    /\ UNCHANGED <<input, b, format, decoded, repo, anns, mediaType, ref, img,
                   tag, calls, heads, writes>>

\* remote.Head with its error dropped: the run goes on with an empty
\* descriptor.
RemoteHeadIgnoringError ==
    /\ pc = "Head"
    /\ heads' = Append(heads, [ref |-> repo, desc |-> NoDescriptor])
    /\ ref' = [annotations |-> anns, mediaType |-> mediaType, bytes |-> b,
               targetRepo |-> repo, targetDesc |-> NoDescriptor]
    /\ calls' = Append(calls, [op |-> "Head", err |-> "head error"])
    /\ pc' = "Image"
    /\ UNCHANGED <<input, b, format, decoded, repo, anns, mediaType, img, tag,
                   err, writes>>

\* main.go:151-162
RemoteHead ==
    /\ pc = "Head"
    /\ \/ \E targetDesc \in HeadDescriptors(repo) :
             /\ ref' = [annotations |-> anns, mediaType |-> mediaType, bytes |-> b,
                        targetRepo |-> repo, targetDesc |-> targetDesc]
             /\ heads' = Append(heads, [ref |-> repo, desc |-> targetDesc])
             /\ Returned("Head", "", "Image")
       \/ /\ ref' = ref
          /\ heads' = Append(heads, [ref |-> repo, desc |-> NoDescriptor])
          /\ Returned("Head", "head error", "Image")
    /\ UNCHANGED <<input, b, format, decoded, repo, anns, mediaType, img, tag,
                   writes>>

\* main.go:171-174
BuildImage ==
    /\ pc = "Image"
    /\ \/ img' = Image(ref) /\ Returned("Image", "", "Tag")
       \/ img' = img /\ Returned("Image", "image error", "Tag")
    /\ UNCHANGED <<input, b, format, decoded, repo, anns, mediaType, ref, tag,
                   heads, writes>>

\* main.go:176-179
DeriveTag ==
    /\ pc = "Tag"
    /\ \/ LET t == Tag(ref, img)
          IN  /\ tag' = IF t.ok THEN t.val ELSE tag
              /\ Returned("Tag", t.err, "Write")
       \/ tag' = tag /\ Returned("Tag", "digest error", "Write")
    /\ UNCHANGED <<input, b, format, decoded, repo, anns, mediaType, ref, img,
                   heads, writes>>

\* remote.Write tried again after a failure.
RemoteWriteRetrying ==
    /\ pc = "Write"
    /\ \E e \in {"", "write error"} :
          /\ writes' = Append(writes, [tag |-> tag, img |-> img, err |-> e])
          /\ calls' = Append(calls, [op |-> "Write", err |-> e])
          /\ pc' = IF e = "" THEN "done" ELSE "Write"
          /\ err' = err
    /\ UNCHANGED <<input, b, format, decoded, repo, anns, mediaType, ref, img, tag,
                   heads>>

\* main.go:183-188
RemoteWrite ==
    /\ pc = "Write"
    /\ \E e \in {"", "write error"} :
          /\ writes' = Append(writes, [tag |-> tag, img |-> img, err |-> e])
          /\ Returned("Write", e, "done")
    /\ UNCHANGED <<input, b, format, decoded, repo, anns, mediaType, ref, img, tag,
                   heads>>

Next ==
    \/ ReadAll
    \/ DetectFormat
    \/ Decode
    \/ ResolveCycloneDX
    \/ ResolveSPDX
    \/ ResolveDefault
    \/ RemoteHead
    \/ BuildImage
    \/ DeriveTag
    \/ RemoteWrite

Spec == Init /\ [][Next]_vars

(***************************************************************************)
(* Properties.                                                             *)
(***************************************************************************)
\* What the resolver of the input's dialect can return for the input.
Resolutions(in) ==
    IF in.format = FormatCycloneDXJSON
    THEN {repoFromPurl(in.BOMRef)}
    ELSE {repoFromSpdx(Decoded(in).SPDX, o) :
              o \in IterationOrders(Len(in.Packages))}

CallsOf(op) == {i \in 1..Len(calls) : calls[i].op = op}

\* C1: remote.Write is invoked only after ReadAll, DetectFormat, Decode, the
\* resolver, remote.Head, Image and Tag have all returned without error; a
\* stage that returns an error is the last stage of the run, the run ends
\* with that error, and nothing is pushed.
C1_ShortCircuit ==
    /\ \A i \in 1..Len(calls) :
          calls[i].err # "" =>
              /\ i = Len(calls)
              /\ pc = "done"
              /\ err = calls[i].err
              /\ (calls[i].op # "Write" => writes = <<>>)
    /\ \A i \in CallsOf("Write") :
          /\ i = 8
          /\ \A j \in 1..7 : calls[j].err = ""
          /\ <<calls[1].op, calls[2].op, calls[3].op>>
                 = <<"ReadAll", "DetectFormat", "Decode">>
          /\ calls[4].op \in {"repoFromPurl", "repoFromSpdx"}
          /\ <<calls[5].op, calls[6].op, calls[7].op>> = <<"Head", "Image", "Tag">>
    /\ Len(writes) = Cardinality(CallsOf("Write"))

C1_Witness ==
    /\ pc = "done"
    /\ Len(calls) = 5
    /\ calls[5] = [op |-> "Head", err |-> "head error"]
    /\ err = "head error"
    /\ writes = <<>>

\* C2: the tag of every push has the registry and the repository of the
\* target reference resolved from the SBOM, and the digest of the very
\* manifest pushed with it, which is the manifest Image built.
C2_TagOfPushedManifest ==
    /\ \A i \in 1..Len(writes) :
          /\ Len(heads) = 1
          /\ \E r \in Resolutions(input) : r.ok /\ r.val = heads[1].ref
          /\ RegistryStr(writes[i].tag) = RegistryStr(heads[1].ref)
          /\ RepositoryStr(writes[i].tag) = RepositoryStr(heads[1].ref)
          /\ writes[i].tag.digest = ImageDigest(writes[i].img)
          /\ writes[i].img = img
    /\ pc = "Write" => tag.digest = ImageDigest(img)

C2_Witness ==
    /\ Len(writes) = 1
    /\ writes[1].err = ""
    /\ RegistryStr(writes[1].tag) = <<"index.docker.io">>
    /\ RepositoryStr(writes[1].tag) = <<"library", "/", "myimage">>

\* C3: a built manifest has the media type of the descriptor remote.Head
\* returned, one layer holding the input bytes with the uncompressed OCI
\* layer media type, the dialect's config media type, the dialect's
\* description as its only annotation, and that descriptor as its subject.
C3_ManifestShape ==
    img # NoImage =>
        /\ Len(heads) = 1
        /\ img.mediaType = heads[1].desc.mediaType
        /\ Len(img.layers) = 1
        /\ img.layers[1].data = input
        /\ img.layers[1].mediaType = "application/vnd.oci.image.layer.v1.tar"
        /\ input.format \in {"cyclonedx-json", "spdx-json"}
        /\ img.config.mediaType =
              (IF input.format = "cyclonedx-json"
               THEN "application/vnd.cyclonedx+json" ELSE "application/spdx+json")
        /\ img.annotations =
              {<<"org.opencontainers.artifact.description",
                 IF input.format = "cyclonedx-json"
                 THEN "CycloneDX JSON SBOM" ELSE "SPDX JSON SBOM">>}
        /\ img.subject = heads[1].desc
        /\ img.subject.digest = heads[1].ref.digest

C3_Witness ==
    /\ img # NoImage
    /\ input.format = "spdx-json"
    /\ img.mediaType = "application/vnd.docker.distribution.manifest.v2+json"
    /\ img.subject.size = 123

\* C10: the stages of a run are a prefix of decode, resolve, lookup, build,
\* derive, push, each at most once; remote.Head is called at most once, after
\* the resolver succeeded, on the reference it returned, and before Image;
\* remote.Write is called at most once and its error ends the run unchanged;
\* a run that has not ended stands at the stage after the last one executed,
\* so it ends after at most eight stages.
C10_StrictSequence ==
    /\ Len(calls) <= 8
    /\ \A i \in 1..Len(calls) :
          calls[i].op =
              <<"ReadAll", "DetectFormat", "Decode",
                IF format = "cyclonedx-json" THEN "repoFromPurl" ELSE "repoFromSpdx",
                "Head", "Image", "Tag", "Write">>[i]
    /\ Len(heads) = Cardinality(CallsOf("Head"))
    /\ \A i \in 1..Len(heads) :
          /\ calls[4].err = ""
          /\ \E r \in Resolutions(input) : r.ok /\ r.val = heads[i].ref
    /\ img # NoImage => CallsOf("Head") = {5} /\ 6 \in CallsOf("Image")
    /\ Len(calls) <= 5 => img = NoImage
    /\ Len(writes) = Cardinality(CallsOf("Write"))
    /\ \A i \in 1..Len(writes) :
          writes[i].err # "" => pc = "done" /\ err = writes[i].err
    /\ pc # "done" =>
          /\ Len(calls) < 8
          /\ pc = <<"ReadAll", "DetectFormat", "Decode", "Resolve", "Head", "Image",
                    "Tag", "Write">>[Len(calls) + 1]

C10_Witness ==
    /\ pc = "done"
    /\ Len(calls) = 8
    /\ Len(writes) = 1
    /\ writes[1].err = "write error"
    /\ err = "write error"

\* C4: for a package-URL with scheme pkg, version V and qualifier
\* repository_url=R, where R@V is a well-formed digest reference,
\* repoFromPurl returns the registry and repository of R with digest V; when
\* the qualifier is absent or empty it returns "repository_url not found",
\* the error of main.go:82, which precedes the call of name.NewDigest; when
\* R@V is malformed it returns the error of name.NewDigest.
C4_PurlResolution ==
    \A c \in PurlParts :
        (/\ input.format = "cyclonedx-json"
         /\ input.BOMRef = RenderPurl(c)
         /\ c.scheme # <<>>
         /\ CallsOf("repoFromPurl") # {}) =>
            LET urls == {c.qualifiers[i].value :
                            i \in {j \in 1..Len(c.qualifiers) :
                                      c.qualifiers[j].key = "repository_url"}}
            IN  IF urls \subseteq {<<>>}
                THEN /\ calls[4] = [op |-> "repoFromPurl",
                                    err |-> "repository_url not found"]
                     /\ pc = "done"
                     /\ err = "repository_url not found"
                     /\ repo = NoDigest
                     /\ heads = <<>>
                ELSE \A u \in RepoUrlParts :
                        RenderRepoUrl(u) \in urls =>
                            IF /\ u.path # <<"BAD">>
                               /\ u.host # <<"registry.example.com", ":", "latest">>
                               /\ c.version = <<"sha256", ":", "aaaa">>
                            THEN /\ calls[4].err = ""
                                 /\ RegistryStr(repo) =
                                       (IF u.host = <<>> THEN <<"index.docker.io">>
                                        ELSE u.host)
                                 /\ RepositoryStr(repo) =
                                       (IF u.host = <<>> /\ Len(u.path) = 1
                                        THEN <<"library", "/">> \o u.path
                                        ELSE u.path)
                                 /\ repo.digest = c.version
                            ELSE /\ calls[4].err \notin {"", "repository_url not found"}
                                 /\ pc = "done"
                                 /\ err = calls[4].err

C4_Witness ==
    /\ input.format = "cyclonedx-json"
    /\ input.BOMRef =
          <<"pkg", ":", "oci", "/", "myimage", "@", "sha256", ":", "aaaa", "?",
            "arch", "=", "amd64", "&",
            "repository_url", "=", "registry.example.com", "/", "org", "/", "myimage">>
    /\ pc = "Head"
    /\ repo = [registry |-> <<"registry.example.com">>,
               repository |-> <<"org", "/", "myimage">>,
               digest |-> <<"sha256", ":", "aaaa">>]

RootPackages(in) ==
    {k \in 1..Len(in.Packages) : in.Packages[k].PackageName = in.DocumentName}

PackageManagerRefs(pkg) ==
    {i \in 1..Len(pkg.PackageExternalReferences) :
        pkg.PackageExternalReferences[i].Category = "PACKAGE-MANAGER"}

\* C5: when exactly one package of an SPDX document has the name of the
\* document and it has exactly one PACKAGE-MANAGER reference, with locator
\* L, repoFromSpdx returns what repoFromPurl(L) returns, reference or
\* error; when no package has the name of the document it returns
\* "not found: repo uri".
C5_SpdxEqualsPurl ==
    (input.format = "spdx-json" /\ CallsOf("repoFromSpdx") # {}) =>
        /\ RootPackages(input) = {} =>
              /\ calls[4].err = "not found: repo uri"
              /\ pc = "done"
              /\ err = "not found: repo uri"
        /\ \A k \in RootPackages(input) :
              (/\ RootPackages(input) = {k}
               /\ Cardinality(PackageManagerRefs(input.Packages[k])) = 1) =>
                  LET pkg == input.Packages[k]
                      i == CHOOSE i \in PackageManagerRefs(pkg) : TRUE
                      r == repoFromPurl(pkg.PackageExternalReferences[i].Locator)
                  IN  /\ calls[4].err = r.err
                      /\ IF r.ok THEN repo = r.val
                         ELSE pc = "done" /\ err = r.err /\ repo = NoDigest

C5_Witness ==
    /\ input.format = "spdx-json"
    /\ Len(input.Packages) = 2
    /\ RootPackages(input) = {2}
    /\ Cardinality(PackageManagerRefs(input.Packages[1])) = 1
    /\ Len(input.Packages[2].PackageExternalReferences) = 2
    /\ PackageManagerRefs(input.Packages[2]) = {2}
    /\ pc = "Head"
    /\ repo = repoFromPurl(LocatorA).val

\* The detected format is none of the two the switch handles.
UnsupportedFormat == format \notin {"", "cyclonedx-json", "spdx-json"}

NoResolution ==
    /\ CallsOf("repoFromPurl") = {}
    /\ CallsOf("repoFromSpdx") = {}
    /\ CallsOf("Head") = {}
    /\ CallsOf("Write") = {}
    /\ heads = <<>>
    /\ writes = <<>>
    /\ repo = NoDigest

\* C6, as claimed: when the detected format is neither CycloneDX-JSON nor
\* SPDX-JSON the run ends with the format-not-supported error, and no
\* resolver, lookup or push is called.
C6_UnsupportedFormatError ==
    UnsupportedFormat =>
        /\ NoResolution
        /\ pc = "done" => err = "unsupported format"

\* C6, amended: when the detected format is neither CycloneDX-JSON nor
\* SPDX-JSON no resolver, lookup or push is called, and the run ends with
\* the format-not-supported error if sbom.Decode succeeded and with the
\* error of sbom.Decode, which runs before the switch, if it failed.
C6_UnsupportedFormatAfterDecode ==
    UnsupportedFormat =>
        /\ NoResolution
        /\ pc \in {"Decode", "Resolve", "done"}
        /\ pc = "done" =>
              /\ Len(calls) = 3
              /\ calls[3].op = "Decode"
              /\ err # ""
              /\ err = (IF calls[3].err = "" THEN "unsupported format"
                        ELSE calls[3].err)

C6_Witness ==
    /\ UnsupportedFormat
    /\ pc = "done"
    /\ Len(calls) = 3
    /\ calls[3] = [op |-> "Decode", err |-> ""]
    /\ err = "unsupported format"

\* pkg:oci/myimage?repository_url=registry.example.com/org/myimage&version=sha256:aaaa
Scenario1Purl ==
    <<"pkg", ":", "oci", "/", "myimage", "?",
      "repository_url", "=", "registry.example.com", "/", "org", "/", "myimage", "&",
      "version", "=", "sha256", ":", "aaaa">>

\* pkg:oci/myimage@sha256:aaaa?repository_url=registry.example.com/org/myimage
Scenario1PurlWithVersion ==
    <<"pkg", ":", "oci", "/", "myimage", "@", "sha256", ":", "aaaa", "?",
      "repository_url", "=", "registry.example.com", "/", "org", "/", "myimage">>

Scenario1Target ==
    [registry |-> <<"registry.example.com">>,
     repository |-> <<"org", "/", "myimage">>,
     digest |-> <<"sha256", ":", "aaaa">>]

Scenario1Descriptor ==
    [mediaType |-> "application/vnd.oci.image.manifest.v1+json",
     digest |-> <<"sha256", ":", "aaaa">>,
     size |-> 123]

\* The run of a CycloneDX document with bom-ref p resolves the target of
\* scenario 1 and, once remote.Head has answered with the descriptor of
\* scenario 1, builds a manifest with its media type and it as subject.
Scenario1Holds(p) ==
    (/\ input.format = "cyclonedx-json"
     /\ input.BOMRef = p
     /\ CallsOf("repoFromPurl") # {}) =>
        /\ calls[4].err = ""
        /\ repo = Scenario1Target
        /\ \A i \in 1..Len(heads) : heads[i].ref = Scenario1Target
        /\ (img # NoImage /\ heads[1].desc = Scenario1Descriptor) =>
              /\ img.mediaType = "application/vnd.oci.image.manifest.v1+json"
              /\ img.subject = Scenario1Descriptor

\* C7, as claimed: scenario 1 with repository_url and version both given as
\* qualifiers.
C7_Scenario1 == Scenario1Holds(Scenario1Purl)

\* C7, amended: scenario 1 holds when the digest is the version of the
\* package-URL, written after "@"; with the digest in a qualifier named
\* version the version is empty and resolution fails in name.NewDigest,
\* before any lookup.
C7_Scenario1WithVersion ==
    /\ Scenario1Holds(Scenario1PurlWithVersion)
    /\ (/\ input.format = "cyclonedx-json"
        /\ input.BOMRef = Scenario1Purl
        /\ CallsOf("repoFromPurl") # {}) =>
           /\ calls[4].err \notin {"", "repository_url not found"}
           /\ pc = "done"
           /\ err = calls[4].err
           /\ heads = <<>>

C7_Witness ==
    /\ input.format = "cyclonedx-json"
    /\ input.BOMRef = Scenario1PurlWithVersion
    /\ repo = Scenario1Target
    /\ Len(heads) = 1
    /\ heads[1].desc = Scenario1Descriptor
    /\ img # NoImage
    /\ img.subject = Scenario1Descriptor

\* The errors repoFromSpdx returns for the documents in which no package
\* has the name of the document.
RootPackageNotFoundErrors ==
    {r.err : r \in UNION {Resolutions(in) :
                             in \in {d \in Inputs : /\ d.format = "spdx-json"
                                                    /\ RootPackages(d) = {}}}}

\* C8: the error returned when a package has the name of the document but
\* none has a PACKAGE-MANAGER reference differs from every error returned
\* when no package has the name of the document.
C8_DistinctErrors ==
    (/\ input.format = "spdx-json"
     /\ CallsOf("repoFromSpdx") # {}
     /\ RootPackages(input) # {}
     /\ \A k \in RootPackages(input) : PackageManagerRefs(input.Packages[k]) = {}) =>
        /\ calls[4].err # ""
        /\ calls[4].err \notin RootPackageNotFoundErrors

\* C9: the result of repoFromSpdx is that of the first package, in document
\* order, with the name of the document: not found when it has no
\* PACKAGE-MANAGER reference, and otherwise what repoFromPurl returns for
\* the locator of its first PACKAGE-MANAGER reference.
C9_FirstMatchWins ==
    (/\ input.format = "spdx-json"
     /\ CallsOf("repoFromSpdx") # {}
     /\ RootPackages(input) # {}) =>
        LET k == CHOOSE k \in RootPackages(input) :
                    \A j \in RootPackages(input) : k <= j
            pkg == input.Packages[k]
            pm == PackageManagerRefs(pkg)
            i == CHOOSE i \in pm : \A j \in pm : i <= j
            r == repoFromPurl(pkg.PackageExternalReferences[i].Locator)
        IN  IF pm = {}
            THEN calls[4].err = "not found: repo uri" /\ repo = NoDigest
            ELSE calls[4].err = r.err /\ repo = r.val

====
